---- MODULE Spec2Model ----
(***************************************************************************)
(* Betting engine of the poker server (src/src/services/game.service.ts    *)
(* over src/src/repositories/repository.ts).                               *)
(*                                                                         *)
(* The store (tables games, players, hands, actions) is the state.  A      *)
(* command of the service is one action; inside a command the handlers     *)
(* are operators that map a store value to the store value after their     *)
(* reads and writes, in the order the code issues them.  A store value is  *)
(* a record [p, h, a, r, ante, err]: the players in created_at order,      *)
(* the hand, the action log of the hand, the chips refunded by chip        *)
(* capping so far and the ante debited by the command (both bookkeeping    *)
(* only) and whether the code threw.                                       *)
(* The service passes no transaction client to the repository, so the     *)
(* writes made before a throw stay in the store.                           *)
(*                                                                         *)
(* Spec runs the commands start-game, player-action and next-hand one     *)
(* after the other.  SpecConc runs two player-action commands whose        *)
(* awaits interleave.                                                      *)
(*                                                                         *)
(* Player ids are the seat indices 0..NumSeats-1, hand ids are 1, 2, ...   *)
(* Chip amounts are counted in units of 50 chips (the seeded small blind   *)
(* of level 1).                                                            *)
(***************************************************************************)
EXTENDS Integers, Sequences, FiniteSets, TLC

\* ------------------------------------------------------------------ bounds
NumSeats == 4        \* seats of the static roster (startGame needs players[3])
PlayersChips == 5    \* playersChips of start-game
MaxBet == 3          \* largest betAmount a client sends
MaxActs == 4         \* player-action commands issued in one run
MaxHands == 2        \* hands dealt in one run
MaxOutOfTurn == 1    \* of them, commands of a player who is not on turn
LateActs == 2        \* player-action commands left in a run that starts late
DeepChips == 200     \* playersChips of a start-game with deep stacks
BlindTime == 10      \* blindTime of start-game
MaxGames == 2        \* start-game commands issued in one run

Seats == 0..(NumSeats - 1)
NoId == -1           \* SQL NULL of a player id (hand.small_blind)
NoHand == 0          \* SQL NULL of a hand id (inactive_time_hand_id)

\* ------------------------------------------------------------------ enums
Active == ""
Bet == "bet"
Fold == "fold"
Call == "call"
Check == "check"
Raise == "raise"
ReRaise == "re-raise"
AllIn == "all-in"
ActionTypes == {Bet, Fold, Call, Check, Raise, ReRaise, AllIn}

Preflop == "preflop"
Flop == "flop"
Turn == "turn"
River == "river"
Showdown == "showdown"

\* a plausible fault: the map has no flop, the preflop street is followed by
\* the turn
nextRoundMapNoFlop(r) ==
  CASE r = Preflop -> Turn
    [] r = Flop -> Turn
    [] r = Turn -> River
    [] r = River -> Showdown
    [] OTHER -> Showdown

nextRoundMap(r) ==
  CASE r = Preflop -> Flop
    [] r = Flop -> Turn
    [] r = Turn -> River
    [] r = River -> Showdown
    [] OTHER -> Showdown

\* The seeded blind table, level -> amounts, in units of 50 chips.
GameLevels == {1, 2, 3}
GameBlinds(level) ==
  CASE level = 1 -> [small_blind_amount |-> 1, big_blind_amount |-> 2, ante |-> 2]
    [] level = 2 -> [small_blind_amount |-> 2, big_blind_amount |-> 6, ante |-> 6]
    [] OTHER     -> [small_blind_amount |-> 4, big_blind_amount |-> 10, ante |-> 10]

\* ------------------------------------------------------------------ state
VARIABLES
  game,      \* the games row: [id, level, chips]; id = 0 before start-game
  players,   \* the players rows in created_at order: Seats -> row
  hand,      \* the hands row of the game's last hand
  actions,   \* the actions rows of that hand in created_at order
  refunded,  \* bookkeeping: chips refunded by chip capping so far
  antesPaid, \* bookkeeping: antes debited so far
  stacksIn,  \* bookkeeping: starting stacks and rebuy stacks handed out
  potPaid,   \* bookkeeping: chips of the hand's pot credited to winners
  last,      \* bookkeeping: the last command and how it ended
  nActs,     \* bookkeeping: player-action commands issued
  nOut,      \* bookkeeping: of them, commands of a player not on turn
  nHands,    \* bookkeeping: hands dealt in this run
  cmd,       \* the two commands in flight: Cmds -> [playerId, actionType]
  pc,        \* the await each of them stands at
  loc,       \* what each of them holds in its local constants
  base,      \* bookkeeping: the store when the two commands arrived
  games      \* the games table in row order: [id, blind_time, ended, rows];
             \* rows holds the players, hand and actions of a game that is
             \* not the last one started (those of the last one are the
             \* variables game, players, hand and actions)

conc == <<cmd, pc, loc, base>>
book == <<antesPaid, stacksIn, potPaid, last, nActs, nOut, nHands>>
lobby == <<games>>

vars == <<game, players, hand, actions, refunded, antesPaid, stacksIn,
          potPaid, last, nActs, nOut, nHands, cmd, pc, loc, base, games>>

Min(a, b) == IF a < b THEN a ELSE b
SetMax(S) == CHOOSE x \in S : \A y \in S : y <= x

NoGame == [id |-> 0, level |-> 0, chips |-> 0]
NoPlayer == [amount |-> 0, is_active |-> FALSE, action |-> Active,
             action_amount |-> 0, all_bet_sum |-> 0,
             inactive_time_hand_id |-> NoHand]
NoHandRow == [id |-> NoHand, level |-> 0, dealer |-> NoId, small_blind |-> NoId,
              big_blind |-> NoId, current_player_turn_id |-> NoId,
              pot_amount |-> 0, ante |-> 0, small_blind_amount |-> 0,
              big_blind_amount |-> 0, current_max_bet |-> 0,
              last_raise_amount |-> 0, current_round |-> Preflop,
              is_changed_current_round |-> FALSE]

\* the rows of a game's players, hand and actions before it has any
NoRows == [g |-> NoGame, p |-> [i \in 0..(NumSeats - 1) |-> NoPlayer],
           h |-> NoHandRow, a |-> <<>>]

\* the games row createGame inserts: end_time is null
GameRow(id, blindTime) ==
  [id |-> id, blind_time |-> blindTime, ended |-> FALSE, rows |-> NoRows]

\* ------------------------------------------------------------ repository
RECURSIVE SumBets(_, _, _, _)
\* SUM(bet_amount) of the first n rows of log a that match (player, rounds).
SumBets(a, n, pid, rounds) ==
  IF n = 0 THEN 0
  ELSE SumBets(a, n - 1, pid, rounds)
       + (IF a[n].player_id = pid /\ a[n].round \in rounds
          THEN a[n].bet_amount ELSE 0)

AllRounds == {Preflop, Flop, Turn, River, Showdown}

getActionsBetAmountsByHandIdAndPlayerIdAndRound(a, pid, round) ==
  SumBets(a, Len(a), pid, {round})

getActionsBetAmountsByHandIdAndPlayerId(a, pid) ==
  SumBets(a, Len(a), pid, AllRounds)

\* The rows of (player, round): the service only asks whether there are any.
getActionsByHandIdAndPlayerIdAndRound(a, pid, round) ==
  {k \in 1..Len(a) : a[k].player_id = pid /\ a[k].round = round}

hasAtLeastOneActionType(a, round, types) ==
  \E k \in 1..Len(a) : a[k].round = round /\ a[k].action_type \in types

\* ORDER BY created_at DESC LIMIT 1: the row inserted last, 0 for none.
getLastActionForHand(a) == Len(a)

\* a plausible fault: the order of the last action is reused
NextOrderOfSame(n) == n

NextOrderOf(n) == n + 1

getActionOrders(a) ==
  LET lastAction == getLastActionForHand(a)
  IN [currentBettingRound |->
        IF lastAction # 0 THEN NextOrderOf(a[lastAction].betting_round) ELSE 1,
      actionOrder |->
        IF lastAction # 0 THEN NextOrderOf(a[lastAction].action_order) ELSE 1]

createAction(S, pid, round, orders, type, amt) ==
  [S EXCEPT !.a = Append(@, [player_id |-> pid, round |-> round,
                             betting_round |-> orders.currentBettingRound,
                             action_order |-> orders.actionOrder,
                             action_type |-> type, bet_amount |-> amt])]

Throw(S) == [S EXCEPT !.err = TRUE]

\* ------------------------------------------------------------ next actor
Eligible(pl) == pl.is_active /\ pl.action # Fold /\ pl.action # AllIn

\* The seat found, or NoId for null.
getNextActivePlayer(pls, currentPlayerIndex, isChangedCurrentRound) ==
  IF isChangedCurrentRound THEN NoId
  ELSE LET ks == {k \in 0..(NumSeats - 1) :
                    Eligible(pls[(currentPlayerIndex + k) % NumSeats])}
       IN IF ks = {} THEN NoId
          ELSE (currentPlayerIndex + (CHOOSE k \in ks : \A j \in ks : k <= j))
               % NumSeats

\* ------------------------------------------------------------ chip capping
\* effectiveAllIn of seat i: min(action_amount, street total + stack).
effectiveAllIn(S, i) ==
  Min(S.p[i].action_amount,
      getActionsBetAmountsByHandIdAndPlayerIdAndRound(S.a, i, S.h.current_round)
        + S.p[i].amount)

\* a plausible fault: the highest effective all-in is refunded in full
RefundWhole(highest, secondHighest) == highest

\* The refund of chip capping: highest minus second highest effective all-in.
RefundAmount(highest, secondHighest) == highest - secondHighest

\* The body of handleChipCapping for the live players activePlayers and
\* their effective all-ins eff (a function of the seat).
CapChips(S, activePlayers, eff) ==
  IF Cardinality(activePlayers) < 2 THEN S
  ELSE
    LET top == SetMax({eff[i] : i \in activePlayers})
        tops == {i \in activePlayers : eff[i] = top}
        \* sorted descending: [0] is a seat of tops, [1] another seat of
        \* tops when there is one, else the best of the rest
        highestAllIn == CHOOSE i \in tops : TRUE
        second == IF Cardinality(tops) >= 2 THEN top
                  ELSE SetMax({eff[i] : i \in activePlayers \ {highestAllIn}})
        refundAmount == RefundAmount(top, second)
        nonAllInPlayers == {i \in activePlayers :
                              S.p[i].action # AllIn \/ S.p[i].amount > 0}
    IN IF refundAmount <= 0 THEN S
       ELSE [S EXCEPT
               !.p[highestAllIn].amount = @ + refundAmount,
               !.p[highestAllIn].all_bet_sum = @ - refundAmount,
               !.p[highestAllIn].action_amount = second,
               !.h.pot_amount = @ - refundAmount,
               !.h.current_max_bet = second,
               !.h.last_raise_amount = 0,
               !.h.current_round = IF Cardinality(nonAllInPlayers) <= 1
                                   THEN Showdown ELSE @,
               !.r = @ + refundAmount]

handleChipCapping(S) ==
  CapChips(S, {i \in Seats : S.p[i].is_active /\ S.p[i].action # Fold},
           [i \in Seats |-> effectiveAllIn(S, i)])

\* UPDATE players SET action = '', action_amount = 0
\*   WHERE is_active AND action != 'fold' AND action != 'all-in'
updateActiveNotFoldAndNotAllInPlayersByGameId(S) ==
  [S EXCEPT !.p = [i \in Seats |->
     IF Eligible(S.p[i])
     THEN [S.p[i] EXCEPT !.action = Active, !.action_amount = 0]
     ELSE S.p[i]]]

\* ------------------------------------------------------------ nextPlayer
\* First seat after the dealer, the dealer excluded, that can still act.
FirstAfterDealer(pls, dealerPlayerIndex) ==
  LET os == {o \in 1..(NumSeats - 1) :
               Eligible(pls[(dealerPlayerIndex + o) % NumSeats])}
  IN IF os = {} THEN NoId
     ELSE (dealerPlayerIndex + (CHOOSE o \in os : \A j \in os : o <= j))
          % NumSeats

\* The last lines of nextPlayer: choose the actor from the players and the
\* hand as they were read when nextPlayer began.
SetNextActor(S, pls, currentPlayerIndex, isChanged) ==
  LET nextActivePlayer == getNextActivePlayer(pls, currentPlayerIndex, isChanged)
  IN IF nextActivePlayer # NoId
     THEN [S EXCEPT !.h.current_player_turn_id = nextActivePlayer,
                    !.h.is_changed_current_round = FALSE]
     ELSE S

\* capping, reset of the street state, then the write of the new street
AdvanceRound(S, nextRound) ==
  LET S1 == updateActiveNotFoldAndNotAllInPlayersByGameId(handleChipCapping(S))
  IN [S1 EXCEPT !.h.current_round = nextRound,
                !.h.is_changed_current_round = TRUE]

EndHand(S) == [handleChipCapping(S) EXCEPT !.h.current_round = Showdown]

\* The street ended with equal bets: S1 is the store after the street
\* change, pls and hnd the players and the hand read when nextPlayer began.
ActorAfterDealer(S1, pls, hnd) ==
  LET nextIndex == FirstAfterDealer(S1.p, hnd.dealer)
  IN IF nextIndex = NoId THEN S1
     ELSE SetNextActor(S1, pls, nextIndex, hnd.is_changed_current_round)

\* every live player who is not all-in has a row in this street
AllPlayersActedCurrentRound(S, notAllIn) ==
  \A i \in notAllIn :
     getActionsByHandIdAndPlayerIdAndRound(S.a, i, S.h.current_round) # {}

\* The body of nextPlayer for the live seats and the street totals bets (a
\* function of the seat) it computes from the players and the log it read.
ChooseNext(S, playerId, live, bets) ==
  LET hnd == S.h
      pls == S.p
      foldingPlayerIndex == playerId
      notAllIn == {i \in live : pls[i].action # AllIn}
      lastLive == SetMax(live)
      maxBetCurrentRound == SetMax({bets[i] : i \in live})
      unequal == {i \in live : bets[i] # maxBetCurrentRound}
      allActionAmountsEqual == unequal = {}
      allUnequalPlayersAreAllIn ==
        /\ unequal # {}
        /\ \A i \in unequal : ~(pls[i].action # AllIn /\ pls[i].amount > 0)
      countNonAllInOverall ==
        Cardinality({i \in live : pls[i].action # AllIn /\ pls[i].amount > 0})
      isAllPlayerActionAllIn == \A i \in live : pls[i].action = AllIn
  IN IF Cardinality(live) < 2 THEN EndHand(S)
     ELSE IF Cardinality(notAllIn) = 1 /\ (CHOOSE i \in notAllIn : TRUE) = lastLive
     THEN EndHand(S)
     ELSE IF ~AllPlayersActedCurrentRound(S, notAllIn)
     THEN SetNextActor(S, pls, foldingPlayerIndex + 1,
                       hnd.is_changed_current_round)
     ELSE IF ~allActionAmountsEqual
     THEN IF allUnequalPlayersAreAllIn
          THEN IF countNonAllInOverall <= 1
               THEN AdvanceRound(S, nextRoundMap(River))
               ELSE SetNextActor(AdvanceRound(S, nextRoundMap(hnd.current_round)),
                                 pls, foldingPlayerIndex + 1,
                                 hnd.is_changed_current_round)
          ELSE SetNextActor(S, pls, foldingPlayerIndex + 1,
                            hnd.is_changed_current_round)
     ELSE
       LET currentRound == IF isAllPlayerActionAllIn THEN River
                           ELSE hnd.current_round
           nextRound == nextRoundMap(currentRound)
       IN ActorAfterDealer(IF nextRound # currentRound
                           THEN AdvanceRound(S, nextRound) ELSE EndHand(S),
                           pls, hnd)

nextPlayer(S, playerId) ==
  ChooseNext(S, playerId,
             {i \in Seats : S.p[i].is_active /\ S.p[i].action # Fold},
             [i \in Seats |-> getActionsBetAmountsByHandIdAndPlayerIdAndRound(
                                S.a, i, S.h.current_round)])

\* ------------------------------------------------------------ handlers
\* Each handler gets the store S as performAction read it (its `hand`
\* argument is S.h) and returns the store after nextPlayer.

handleBetAction(S, playerId, betAmount) ==
  LET hnd == S.h
      player == S.p[playerId]
      S1 == IF betAmount # 0
            THEN [S EXCEPT
                    !.p[playerId].amount = player.amount - betAmount,
                    !.p[playerId].action = Bet,
                    !.p[playerId].action_amount = betAmount,
                    !.p[playerId].all_bet_sum = player.all_bet_sum + betAmount,
                    !.h.pot_amount = hnd.pot_amount + betAmount,
                    !.h.last_raise_amount = betAmount,
                    !.h.current_max_bet = betAmount]
            ELSE S
      S2 == createAction(S1, playerId, hnd.current_round,
                         getActionOrders(S1.a), Bet, betAmount)
  IN nextPlayer(S2, playerId)

\* a plausible fault: any raise above the current bet passes
minRaiseAmountNoIncrement(hnd) == hnd.current_max_bet

\* minRaiseAmount of handleRaiseAction and handleReRaiseAction
minRaiseAmount(hnd) ==
  hnd.current_max_bet
  + (IF hnd.current_max_bet > 0 THEN hnd.last_raise_amount
     ELSE hnd.big_blind_amount)

\* a plausible fault: the size of a raise is not checked
RaiseNeverTooSmall(hnd, betAmount) == FALSE

\* the guard of both raise handlers: true when the handler throws
RaiseTooSmall(hnd, betAmount) == betAmount < minRaiseAmount(hnd)

handleRaiseAction(S, playerId, betAmount) ==
  LET hnd == S.h
      player == S.p[playerId]
  IN IF RaiseTooSmall(hnd, betAmount) THEN Throw(S)
     ELSE
       LET S1 == IF betAmount # 0
                 THEN [S EXCEPT
                    !.p[playerId].amount = player.amount - betAmount,
                    !.p[playerId].action = Raise,
                    !.p[playerId].action_amount = betAmount,
                    !.p[playerId].all_bet_sum = player.all_bet_sum + betAmount,
                    !.h.pot_amount = hnd.pot_amount + betAmount,
                    !.h.last_raise_amount = betAmount - hnd.current_max_bet,
                    !.h.current_max_bet = betAmount]
                 ELSE S
           S2 == createAction(S1, playerId, hnd.current_round,
                              getActionOrders(S1.a), Raise, betAmount)
       IN nextPlayer(S2, playerId)

handleReRaiseAction(S, playerId, betAmount) ==
  LET hnd == S.h
      player == S.p[playerId]
      turnPlayerBetAmounts ==
        getActionsBetAmountsByHandIdAndPlayerIdAndRound(
          S.a, hnd.current_player_turn_id, hnd.current_round)
      mustBeBet == betAmount - turnPlayerBetAmounts
  IN IF RaiseTooSmall(hnd, betAmount) THEN Throw(S)
     ELSE
       LET S1 == IF betAmount # 0
                 THEN [S EXCEPT
                    !.p[playerId].amount = player.amount - mustBeBet,
                    !.p[playerId].action = ReRaise,
                    !.p[playerId].action_amount = betAmount,
                    !.p[playerId].all_bet_sum = player.all_bet_sum + mustBeBet,
                    !.h.pot_amount = hnd.pot_amount + mustBeBet,
                    !.h.last_raise_amount = betAmount,
                    !.h.current_max_bet = betAmount]
                 ELSE S
           S2 == createAction(S1, playerId, hnd.current_round,
                              getActionOrders(S1.a), ReRaise, mustBeBet)
       IN nextPlayer(S2, playerId)

\* a plausible fault: a call is never turned into an all-in, the player pays
\* the whole amount owed
handleCallActionWholeOwed(S, playerId) ==
  LET hnd == S.h
      turnPlayerBetAmounts ==
        getActionsBetAmountsByHandIdAndPlayerIdAndRound(
          S.a, hnd.current_player_turn_id, hnd.current_round)
      callAmount == hnd.current_max_bet - turnPlayerBetAmounts
      player == S.p[playerId]
      S1 == [S EXCEPT
               !.h.pot_amount = hnd.pot_amount + callAmount,
               !.p[playerId].amount = player.amount - callAmount,
               !.p[playerId].action = Call,
               !.p[playerId].action_amount = callAmount + turnPlayerBetAmounts,
               !.p[playerId].all_bet_sum = player.all_bet_sum + callAmount]
      S2 == createAction(S1, playerId, hnd.current_round,
                         getActionOrders(S1.a), Call, callAmount)
  IN nextPlayer(S2, playerId)

handleCallAction(S, playerId) ==
  LET hnd == S.h
      turnPlayerBetAmounts ==
        getActionsBetAmountsByHandIdAndPlayerIdAndRound(
          S.a, hnd.current_player_turn_id, hnd.current_round)
      turnPlayer == S.p[hnd.current_player_turn_id]
      mustBeBet == hnd.current_max_bet - turnPlayerBetAmounts
      allIn == turnPlayer.amount <= mustBeBet
      callAmount == IF allIn THEN turnPlayer.amount ELSE mustBeBet
      action == IF allIn THEN AllIn ELSE Call
      player == S.p[playerId]
      S1 == [S EXCEPT
               !.h.pot_amount = hnd.pot_amount + callAmount,
               !.p[playerId].amount = player.amount - callAmount,
               !.p[playerId].action = action,
               !.p[playerId].action_amount = callAmount + turnPlayerBetAmounts,
               !.p[playerId].all_bet_sum = player.all_bet_sum + callAmount]
      S2 == createAction(S1, playerId, hnd.current_round,
                         getActionOrders(S1.a), action, callAmount)
  IN nextPlayer(S2, playerId)

handleFoldAction(S, playerId) ==
  LET hnd == S.h
      S1 == [S EXCEPT !.p[playerId].action = Fold,
                      !.p[playerId].action_amount = 0]
      S2 == createAction(S1, playerId, hnd.current_round,
                         getActionOrders(S1.a), Fold, 0)
  IN nextPlayer(S2, playerId)

\* a plausible fault: a check is processed as a call
handleCheckActionAsCall(S, playerId) == handleCallAction(S, playerId)

handleCheckAction(S, playerId) ==
  LET hnd == S.h
      orders == getActionOrders(S.a)
      S1 == [S EXCEPT !.p[playerId].action = Check,
                      !.p[playerId].action_amount = 0]
      S2 == createAction(S1, playerId, hnd.current_round, orders, Check, 0)
  IN nextPlayer(S2, playerId)

\* a plausible fault: the all-in empties the stack but the chips are not
\* added to the pot
handleAllInActionPotKept(S, playerId) ==
  LET hnd == S.h
      currentRoundPlayerBetAmounts ==
        getActionsBetAmountsByHandIdAndPlayerIdAndRound(
          S.a, playerId, hnd.current_round)
      player == S.p[playerId]
      betAmount == player.amount + currentRoundPlayerBetAmounts
      S1 == [S EXCEPT
               !.p[playerId].amount = 0,
               !.p[playerId].action = AllIn,
               !.p[playerId].action_amount = betAmount,
               !.p[playerId].all_bet_sum = player.all_bet_sum + player.amount,
               !.h.last_raise_amount = betAmount,
               !.h.current_max_bet = betAmount]
      S2 == createAction(S1, playerId, hnd.current_round,
                         getActionOrders(S1.a), AllIn, player.amount)
  IN nextPlayer(S2, playerId)

handleAllInAction(S, playerId) ==
  LET hnd == S.h
      currentRoundPlayerBetAmounts ==
        getActionsBetAmountsByHandIdAndPlayerIdAndRound(
          S.a, playerId, hnd.current_round)
      playerAllBet == getActionsBetAmountsByHandIdAndPlayerId(S.a, playerId)
      player == S.p[playerId]
      betAmount == player.amount + currentRoundPlayerBetAmounts
      currentMaxBet == IF hnd.current_max_bet < player.amount + playerAllBet
                       THEN player.amount + playerAllBet
                       ELSE hnd.current_max_bet
      S1 == [S EXCEPT
               !.p[playerId].amount = 0,
               !.p[playerId].action = AllIn,
               !.p[playerId].action_amount = betAmount,
               !.p[playerId].all_bet_sum = player.all_bet_sum + player.amount,
               !.h.pot_amount = hnd.pot_amount + player.amount,
               !.h.last_raise_amount = currentMaxBet,
               !.h.current_max_bet = currentMaxBet]
      S2 == createAction(S1, playerId, hnd.current_round,
                         getActionOrders(S1.a), AllIn,
                         betAmount - currentRoundPlayerBetAmounts)
  IN nextPlayer(S2, playerId)

\* a plausible fault: players who left the game can still act
PreconditionNeverFails(S, playerId) == FALSE

\* The checks of performAction that can fail for a hand and a player of the
\* game: none looks at hand.current_player_turn_id.
PreconditionFails(S, playerId) == ~S.p[playerId].is_active

performAction(S, playerId, actionType, betAmount) ==
  IF PreconditionFails(S, playerId) THEN Throw(S)
  ELSE CASE actionType = Raise -> handleRaiseAction(S, playerId, betAmount)
         [] actionType = ReRaise -> handleReRaiseAction(S, playerId, betAmount)
         [] actionType = Bet -> handleBetAction(S, playerId, betAmount)
         [] actionType = Call -> handleCallAction(S, playerId)
         [] actionType = Fold -> handleFoldAction(S, playerId)
         [] actionType = Check -> handleCheckAction(S, playerId)
         [] actionType = AllIn -> handleAllInAction(S, playerId)
         [] OTHER -> S

\* The store holds the rows of one game: its last hand and its players.  A
\* command that names another hand, another player or another game finds no
\* row, or rows whose game_id is not its gameId.
AddressFails(S, g, gameId, handId, playerId) ==
  \/ handId # S.h.id
  \/ playerId \notin Seats
  \/ gameId # g.id

\* performAction with the ids of the command; g is the games row
performActionById(S, g, gameId, handId, playerId, actionType, betAmount) ==
  IF AddressFails(S, g, gameId, handId, playerId) THEN Throw(S)
  ELSE performAction(S, playerId, actionType, betAmount)

\* ------------------------------------------------------------ hand lifecycle
\* first seat at offset 1..NumSeats after seat `from` that is_active, or NoId
NextActiveSeat(pls, from) ==
  LET os == {o \in 1..NumSeats : pls[(from + o) % NumSeats].is_active}
  IN IF os = {} THEN NoId
     ELSE (from + (CHOOSE o \in os : \A j \in os : o <= j)) % NumSeats

\* a plausible fault: the small blind is always the next active seat
SmallBlindAlwaysPosted(pls, nextDealerId, lastHandId) ==
  NextActiveSeat(pls, nextDealerId)

\* the small blind loop: the first active seat after the dealer, unless a
\* seat that went inactive in the last hand is met before it
SmallBlindSeat(pls, nextDealerId, lastHandId) ==
  LET stop == {o \in 1..NumSeats :
                 \/ pls[(nextDealerId + o) % NumSeats].is_active
                 \/ pls[(nextDealerId + o) % NumSeats].inactive_time_hand_id
                      = lastHandId}
      o1 == CHOOSE o \in stop : \A j \in stop : o <= j
  IN IF stop = {} THEN NoId
     ELSE IF pls[(nextDealerId + o1) % NumSeats].is_active
          THEN (nextDealerId + o1) % NumSeats
          ELSE NoId

\* The hands row createNewHand inserts; it throws with fewer than two
\* active players.  g is the games row, S the store with the last hand.
createNewHand(S, g) ==
  LET lastHand == S.h
      pls == S.p
      activePlayers == {i \in Seats : pls[i].is_active}
      nextDealerId == NextActiveSeat(pls, lastHand.dealer)
      gameBlind == GameBlinds(g.level)
      smallBlindId == SmallBlindSeat(pls, nextDealerId, lastHand.id)
      bigBlindId == IF smallBlindId = NoId
                    THEN NextActiveSeat(pls, nextDealerId + 1)
                    ELSE NextActiveSeat(pls, smallBlindId)
      currentPlayerTurnId == NextActiveSeat(pls, bigBlindId)
  IN IF Cardinality(activePlayers) < 2 THEN Throw(S)
     ELSE [S EXCEPT
             !.h = [id |-> lastHand.id + 1, level |-> lastHand.level + 1,
                    dealer |-> nextDealerId, small_blind |-> smallBlindId,
                    big_blind |-> bigBlindId,
                    current_player_turn_id |-> currentPlayerTurnId,
                    pot_amount |-> 0, ante |-> gameBlind.ante,
                    small_blind_amount |-> gameBlind.small_blind_amount,
                    big_blind_amount |-> gameBlind.big_blind_amount,
                    current_max_bet |-> 0, last_raise_amount |-> 0,
                    current_round |-> Preflop,
                    is_changed_current_round |-> FALSE],
             !.a = <<>>]

\* the two synthetic blind actions of startGame and handleNextHand
PostBigBlind(S1, hnd) ==
  IF S1.err THEN S1
  ELSE performAction(S1, hnd.big_blind, Raise, hnd.big_blind_amount)

PostBlinds(S) ==
  PostBigBlind(IF S.h.small_blind # NoId
               THEN performAction(S, S.h.small_blind, Bet, S.h.small_blind_amount)
               ELSE S,
               S.h)

\* a plausible fault: the ante is recorded on the hand but never debited
AnteDebitNone(ante) == 0

\* the ante the big blind pays when a hand is created
AnteDebit(ante) == ante

startGame(playersChips) ==
  LET gameBlind == GameBlinds(1)
      pls == [i \in Seats |->
                [amount |-> IF i = 2 THEN playersChips - AnteDebit(gameBlind.ante)
                            ELSE playersChips,
                 is_active |-> TRUE,
                 action |-> IF i = 1 THEN Bet ELSE IF i = 2 THEN Raise ELSE Active,
                 action_amount |-> 0, all_bet_sum |-> 0,
                 inactive_time_hand_id |-> NoHand]]
      hnd == [id |-> 1, level |-> 1, dealer |-> 0, small_blind |-> 1,
              big_blind |-> 2, current_player_turn_id |-> 3,
              pot_amount |-> 0, ante |-> gameBlind.ante,
              small_blind_amount |-> gameBlind.small_blind_amount,
              big_blind_amount |-> gameBlind.big_blind_amount,
              current_max_bet |-> 0, last_raise_amount |-> 0,
              current_round |-> Preflop, is_changed_current_round |-> FALSE]
  IN PostBlinds([p |-> pls, h |-> hnd, a |-> <<>>, r |-> 0,
                 ante |-> gameBlind.ante, err |-> FALSE])

\* Players with an empty stack and no inactive_time_hand_id leave the game.
MarkBusted(pls, handId) ==
  [i \in Seats |->
     IF pls[i].amount = 0 /\ pls[i].inactive_time_hand_id = NoHand
     THEN [pls[i] EXCEPT !.is_active = FALSE, !.inactive_time_hand_id = handId]
     ELSE pls[i]]

\* the steps of handleNextHand after createNewHand returned S3; p2 holds the
\* players as handleNextHand read them before it marked the busted ones
StartNewHand(S3, p2, gameBlind) ==
  IF S3.err THEN S3
  ELSE PostBlinds([S3 EXCEPT
         !.p = [i \in Seats |->
                  [S3.p[i] EXCEPT
                     !.amount = IF i = S3.h.big_blind
                                THEN p2[i].amount - AnteDebit(gameBlind.ante)
                                ELSE @,
                     !.action = Active, !.action_amount = 0,
                     !.all_bet_sum = 0]],
         !.ante = gameBlind.ante])

\* the players after the winners were credited and the rebuys restored
CreditAndRebuy(pls, g, winners, reBuyPlayers) ==
  [i \in Seats |->
     IF i \in reBuyPlayers
     THEN [pls[i] EXCEPT !.amount = g.chips, !.is_active = TRUE,
             !.action = Active, !.action_amount = 0,
             !.all_bet_sum = 0, !.inactive_time_hand_id = NoHand]
     ELSE IF i \in DOMAIN winners
     THEN [pls[i] EXCEPT !.amount = @ + winners[i]]
     ELSE pls[i]]

NewHandFrom(S, g, p2) ==
  StartNewHand(createNewHand([S EXCEPT !.p = MarkBusted(p2, S.h.id)], g),
               p2, GameBlinds(g.level))

\* handleNextHand on the game's last hand: winners is a function from the
\* credited seats to their shares, reBuyPlayers a set of seats, g the games
\* row with the new level.
handleNextHand(S, g, winners, reBuyPlayers) ==
  NewHandFrom(S, g, CreditAndRebuy(S.p, g, winners, reBuyPlayers))

\* handlePlayerReBuy: the player gets the starting stack of the game back
handlePlayerReBuy(S, g, playerId) ==
  [S EXCEPT !.p[playerId].amount = g.chips,
            !.p[playerId].is_active = TRUE,
            !.p[playerId].action = Active,
            !.p[playerId].action_amount = 0,
            !.p[playerId].all_bet_sum = 0]

\* ------------------------------------------------------------ opportunities
\* SELECT COUNT(DISTINCT action_type) = |types| over the rows of the round
hasAllActionTypes(a, round, types) ==
  /\ types # {}
  /\ Cardinality({t \in types :
                    \E k \in 1..Len(a) : a[k].round = round /\ a[k].action_type = t})
       = Cardinality(types)

\* The opportunity set of the player on turn; g is the games row.
getPlayerActionsOpportunities(g, S) ==
  LET hnd == S.h
      turnPlayer == S.p[hnd.current_player_turn_id]
      gameBlind == GameBlinds(g.level)
      currentRound == hnd.current_round
      deadSmallBlind == currentRound = Preflop /\ hnd.small_blind = NoId
      isCurrentRoundHaveBet ==
        hasAllActionTypes(S.a, currentRound, {Bet}) \/ deadSmallBlind
      isCurrentRoundHaveAllIn == hasAllActionTypes(S.a, currentRound, {AllIn})
      isCurrentRoundHaveRaise == hasAllActionTypes(S.a, currentRound, {Raise})
      isCurrentRoundHaveBetOrAllIn ==
        hasAtLeastOneActionType(S.a, currentRound, {Bet, AllIn}) \/ deadSmallBlind
      raiseMinAmount == hnd.current_max_bet * 2
      betOrAllInAndRaise ==
        (isCurrentRoundHaveBet \/ isCurrentRoundHaveAllIn) /\ isCurrentRoundHaveRaise
  IN [isCanFold |-> isCurrentRoundHaveBetOrAllIn,
      isCanCall |-> isCurrentRoundHaveBetOrAllIn,
      isCanCheck |-> ~isCurrentRoundHaveBetOrAllIn,
      isCanBet |-> ~isCurrentRoundHaveBetOrAllIn,
      betMinAmount |-> gameBlind.big_blind_amount,
      isCanRaise |-> isCurrentRoundHaveBetOrAllIn /\ ~betOrAllInAndRaise,
      isCanReRaise |-> betOrAllInAndRaise /\ turnPlayer.amount > raiseMinAmount,
      raiseMinAmount |-> raiseMinAmount,
      isCanAllIn |-> TRUE,
      allInAmount |-> turnPlayer.amount]

\* ------------------------------------------------------------ commands
Store == [p |-> players, h |-> hand, a |-> actions, r |-> refunded,
          ante |-> 0, err |-> FALSE]

Outcome(S) == IF S.err THEN "error" ELSE "ok"

BetAmounts == 1..MaxBet
PlainTypes == {Call, Fold, Check, AllIn}
SizedTypes == {Bet, Raise, ReRaise}

\* Two commands can be in flight at once: the socket handlers are async
\* functions and the service takes no lock and opens no transaction.
Cmds == {1, 2}
NoLocals == [hand |-> NoHandRow, turnPlayerBetAmounts |-> 0,
             turnPlayerAmount |-> 0,
             orders |-> [currentBettingRound |-> 0, actionOrder |-> 0],
             action |-> Active, callAmount |-> 0]

Init ==
  /\ game = NoGame
  /\ players = [i \in Seats |-> NoPlayer]
  /\ hand = NoHandRow
  /\ actions = <<>>
  /\ refunded = 0
  /\ antesPaid = 0
  /\ stacksIn = 0
  /\ potPaid = 0
  /\ last = [cmd |-> "none", type |-> "", playerId |-> NoId,
             inTurn |-> TRUE, result |-> "ok"]
  /\ nActs = 0
  /\ nOut = 0
  /\ nHands = 0
  /\ cmd = [c \in Cmds |-> [playerId |-> NoId, actionType |-> Active]]
  /\ pc = [c \in Cmds |-> "idle"]
  /\ loc = [c \in Cmds |-> NoLocals]
  /\ base = [p |-> players, h |-> hand, a |-> actions]
  /\ games = <<>>

\* start-game {blindTime, playersChips}
StartGameWith(playersChips) ==
  /\ game.id = 0
  /\ \E S \in {startGame(playersChips)} :
        /\ game' = [id |-> 1, level |-> 1, chips |-> playersChips]
        /\ players' = S.p
        /\ hand' = S.h
        /\ actions' = S.a
        /\ refunded' = S.r
        /\ antesPaid' = S.ante
        /\ stacksIn' = NumSeats * playersChips
        /\ potPaid' = 0
        /\ last' = [cmd |-> "start", type |-> "", playerId |-> NoId,
                    inTurn |-> TRUE, result |-> Outcome(S)]
        /\ nHands' = nHands + 1
        /\ games' = Append(games, GameRow(1, BlindTime))
        /\ UNCHANGED <<nActs, nOut>>
        /\ UNCHANGED conc

StartGame == StartGameWith(PlayersChips)

\* player-action {gameId, handId, playerId, actionType, betAmount}
Command(gameId, handId, playerId, actionType, betAmount) ==
  /\ game.id # 0
  /\ nActs < MaxActs
  /\ (playerId # hand.current_player_turn_id) => (nOut < MaxOutOfTurn)
  /\ \E S \in {performActionById(Store, game, gameId, handId, playerId,
                                  actionType, betAmount)} :
     LET inTurn == playerId = hand.current_player_turn_id
     IN /\ players' = S.p
        /\ hand' = S.h
        /\ actions' = S.a
        /\ refunded' = S.r
        /\ last' = [cmd |-> "action", type |-> actionType,
                    playerId |-> playerId, inTurn |-> inTurn,
                    result |-> Outcome(S)]
        /\ nActs' = nActs + 1
        /\ nOut' = IF inTurn THEN nOut ELSE nOut + 1
        /\ UNCHANGED <<game, antesPaid, stacksIn, potPaid, nHands>>
        /\ UNCHANGED conc
        /\ UNCHANGED lobby

\* a player-action on the game's last hand by a player of the game
Act(playerId, actionType, betAmount) ==
  Command(game.id, hand.id, playerId, actionType, betAmount)

\* a player-action that names a game, a hand or a player that is not there
Misaddressed(gameId, handId, playerId, actionType) ==
  /\ AddressFails(Store, game, gameId, handId, playerId)
  /\ Command(gameId, handId, playerId, actionType, 0)

PlayerAction ==
  \/ \E playerId \in Seats, actionType \in PlainTypes :
       Act(playerId, actionType, 0)
  \/ \E playerId \in Seats, actionType \in SizedTypes, betAmount \in BetAmounts :
       Act(playerId, actionType, betAmount)
  \/ \E gameId \in {game.id, game.id + 1}, handId \in {hand.id, hand.id + 1},
        playerId \in {hand.current_player_turn_id, NumSeats},
        actionType \in {Call, Fold} :
       Misaddressed(gameId, handId, playerId, actionType)

\* next-hand {gameId, handId, winners, gameLevel, rebuyPlayers} for the
\* finished last hand: one winner takes the pot, at most one player whose
\* stack is empty is rebought.
LevelInputs == {1, 2}

NextHandCmd(winner, gameLevel, reBuyPlayers) ==
  /\ game.id # 0
  /\ hand.current_round = Showdown
  /\ nHands < MaxHands
  /\ potPaid = 0
  /\ players[winner].is_active /\ players[winner].action # Fold
  /\ \A i \in reBuyPlayers : i # winner /\ players[i].amount = 0
  /\ \E S \in {handleNextHand(Store, [game EXCEPT !.level = gameLevel],
                               (winner :> hand.pot_amount), reBuyPlayers)} :
        /\ game' = [game EXCEPT !.level = gameLevel]
        /\ players' = S.p
        /\ hand' = S.h
        /\ actions' = S.a
        /\ refunded' = S.r
        /\ antesPaid' = antesPaid + S.ante
        /\ stacksIn' = stacksIn + Cardinality(reBuyPlayers) * game.chips
        /\ potPaid' = IF S.err THEN hand.pot_amount ELSE 0
        /\ last' = [cmd |-> "next", type |-> "", playerId |-> NoId,
                    inTurn |-> TRUE, result |-> Outcome(S)]
        /\ nHands' = IF S.err THEN nHands ELSE nHands + 1
        /\ UNCHANGED <<nActs, nOut>>
        /\ UNCHANGED conc
        /\ UNCHANGED lobby

NextHand ==
  \E winner \in Seats, gameLevel \in LevelInputs,
     reBuyPlayers \in {{}} \cup {{i} : i \in Seats} :
       NextHandCmd(winner, gameLevel, reBuyPlayers)

\* What handleNextHand returns: g is the games row it read before it wrote
\* the new level, gNew the row after that write, S the store after the new
\* hand was created.
handleNextHandResult(g, gNew, S) ==
  [players |-> S.p, hand |-> S.h, level |-> g.level,
   blindTime |-> BlindTime,
   playerActions |-> getPlayerActionsOpportunities(gNew, S)]

Next == StartGame \/ PlayerAction \/ NextHand

Spec == Init /\ [][Next]_vars

\* ------------------------------------------------- deep stacks
\* Games whose starting stack is many big blinds, with bets of two and
\* three big blinds.
DeepBets == {2 * GameBlinds(1).big_blind_amount,
             3 * GameBlinds(1).big_blind_amount}

StartGameDeep == StartGameWith(DeepChips)

PlayerActionDeep ==
  \/ \E playerId \in Seats, actionType \in PlainTypes :
       Act(playerId, actionType, 0)
  \/ \E playerId \in Seats, actionType \in SizedTypes, betAmount \in DeepBets :
       Act(playerId, actionType, betAmount)

NextDeep == StartGameDeep \/ PlayerActionDeep

SpecDeep == Init /\ [][NextDeep]_vars

\* ------------------------------------------------- runs that start late
\* Runs that begin at the showdown of the first hand, after start-game and
\* a given sequence of player-action commands, and take the rebuy command
\* as well.
RECURSIVE RunActs(_, _)
\* the store after the player-action commands of script, one after another
RunActs(S, script) ==
  IF script = <<>> THEN S
  ELSE RunActs(performAction(S, Head(script)[1], Head(script)[2], Head(script)[3]),
               Tail(script))

\* first hands that end at showdown with two players all-in for the same
\* amount, each command sent by the player on turn
LateScripts ==
  {<<<<3, AllIn, 0>>, <<0, Call, 0>>, <<1, Fold, 0>>, <<2, Fold, 0>>>>,
   <<<<3, Fold, 0>>, <<0, Call, 0>>, <<1, AllIn, 0>>, <<2, Fold, 0>>,
     <<0, Call, 0>>>>}

InitLate ==
  \E script \in LateScripts :
    \E S \in {RunActs(startGame(PlayersChips), script)} :
      /\ game = [id |-> 1, level |-> 1, chips |-> PlayersChips]
      /\ players = S.p
      /\ hand = S.h
      /\ actions = S.a
      /\ refunded = S.r
      /\ antesPaid = S.ante
      /\ stacksIn = NumSeats * PlayersChips
      /\ potPaid = 0
      /\ last = [cmd |-> "action", type |-> script[Len(script)][2],
                 playerId |-> script[Len(script)][1], inTurn |-> TRUE,
                 result |-> Outcome(S)]
      /\ nActs = MaxActs - LateActs
      /\ nOut = 0
      /\ nHands = 0
      /\ cmd = [c \in Cmds |-> [playerId |-> NoId, actionType |-> Active]]
      /\ pc = [c \in Cmds |-> "idle"]
      /\ loc = [c \in Cmds |-> NoLocals]
      /\ base = [p |-> players, h |-> hand, a |-> actions]
      /\ games = <<GameRow(1, BlindTime)>>

\* rebuy {gameId, handId, playerId} for a player whose stack is empty
ReBuy(playerId) ==
  /\ game.id # 0
  /\ players[playerId].amount = 0
  /\ \E S \in {handlePlayerReBuy(Store, game, playerId)} :
        /\ players' = S.p
        /\ hand' = S.h
        /\ actions' = S.a
        /\ refunded' = S.r
        /\ stacksIn' = stacksIn + game.chips
        /\ last' = [cmd |-> "rebuy", type |-> "", playerId |-> NoId,
                    inTurn |-> TRUE, result |-> Outcome(S)]
        /\ UNCHANGED <<game, antesPaid, potPaid, nActs, nOut, nHands>>
        /\ UNCHANGED conc
        /\ UNCHANGED lobby

PlayerReBuy == \E playerId \in Seats : ReBuy(playerId)

NextLate == PlayerAction \/ NextHand \/ PlayerReBuy

SpecLate == InitLate /\ [][NextLate]_vars

\* ------------------------------------------------- runs that start mid-hand
\* Runs that begin in the first hand after start-game and the commands of
\* MidHandScript, each sent by the player on turn: the big blind has called
\* all-in what the dealer raised, the other two have folded.
MidHandScript ==
  <<<<3, Fold, 0>>, <<0, Raise, 3>>, <<1, Fold, 0>>, <<2, Call, 0>>>>

InitMidHand ==
  \E S \in {RunActs(startGame(PlayersChips), MidHandScript)} :
    /\ game = [id |-> 1, level |-> 1, chips |-> PlayersChips]
    /\ players = S.p
    /\ hand = S.h
    /\ actions = S.a
    /\ refunded = S.r
    /\ antesPaid = S.ante
    /\ stacksIn = NumSeats * PlayersChips
    /\ potPaid = 0
    /\ last = [cmd |-> "action", type |-> Call, playerId |-> 2,
               inTurn |-> TRUE, result |-> Outcome(S)]
    /\ nActs = MaxActs - LateActs
    /\ nOut = 0
    /\ nHands = 1
    /\ cmd = [c \in Cmds |-> [playerId |-> NoId, actionType |-> Active]]
    /\ pc = [c \in Cmds |-> "idle"]
    /\ loc = [c \in Cmds |-> NoLocals]
    /\ base = [p |-> players, h |-> hand, a |-> actions]
    /\ games = <<GameRow(1, BlindTime)>>

NextMidHand == PlayerAction

SpecMidHand == InitMidHand /\ [][NextMidHand]_vars

\* Runs that begin on the flop of the first hand: after start-game the
\* player after the big blind has called, the dealer has folded and the
\* small blind has called, each in turn.
FlopScript == <<<<3, Call, 0>>, <<0, Fold, 0>>, <<1, Call, 0>>>>

InitFlop ==
  \E S \in {RunActs(startGame(PlayersChips), FlopScript)} :
    /\ game = [id |-> 1, level |-> 1, chips |-> PlayersChips]
    /\ players = S.p
    /\ hand = S.h
    /\ actions = S.a
    /\ refunded = S.r
    /\ antesPaid = S.ante
    /\ stacksIn = NumSeats * PlayersChips
    /\ potPaid = 0
    /\ last = [cmd |-> "action", type |-> Call, playerId |-> 1,
               inTurn |-> TRUE, result |-> Outcome(S)]
    /\ nActs = 0
    /\ nOut = 0
    /\ nHands = 1
    /\ cmd = [c \in Cmds |-> [playerId |-> NoId, actionType |-> Active]]
    /\ pc = [c \in Cmds |-> "idle"]
    /\ loc = [c \in Cmds |-> NoLocals]
    /\ base = [p |-> players, h |-> hand, a |-> actions]
    /\ games = <<GameRow(1, BlindTime)>>

NextFlop == PlayerAction

SpecFlop == InitFlop /\ [][NextFlop]_vars

\* ------------------------------------------------- interleaved commands
\* Two player-action commands (Call or Fold) of the same hand whose awaits
\* interleave.  Each step below is the code between two awaits of
\* performAction and its handler; the constants the code holds across an
\* await (the hand it read, the sums, the action orders) are in loc.  The
\* nextPlayer call at the end of a handler is taken as one step.
ConcTypes == {Call, Fold}

Arrive(playerA, typeA, playerB, typeB) ==
  /\ game.id # 0
  /\ \A c \in Cmds : pc[c] = "idle"
  /\ cmd' = (1 :> [playerId |-> playerA, actionType |-> typeA]
             @@ 2 :> [playerId |-> playerB, actionType |-> typeB])
  /\ pc' = [c \in Cmds |-> "hand"]
  /\ base' = [p |-> players, h |-> hand, a |-> actions]
  /\ UNCHANGED <<game, players, hand, actions, refunded, loc>>
  /\ UNCHANGED book
  /\ UNCHANGED lobby

\* performAction: getHandById and getPlayerById, then the checks
ReadHand(c) ==
  /\ pc[c] = "hand"
  /\ loc' = [loc EXCEPT ![c].hand = hand]
  /\ pc' = [pc EXCEPT ![c] =
             IF PreconditionFails(Store, cmd[c].playerId) THEN "done"
             ELSE IF cmd[c].actionType = Call THEN "turn" ELSE "update"]
  /\ UNCHANGED <<game, players, hand, actions, refunded, cmd, base>>
  /\ UNCHANGED book
  /\ UNCHANGED lobby

\* handleCallAction: the street total and the row of the player on turn
ReadTurnPlayer(c) ==
  /\ pc[c] = "turn"
  /\ LET hnd == loc[c].hand
     IN loc' = [loc EXCEPT
                 ![c].turnPlayerBetAmounts =
                    getActionsBetAmountsByHandIdAndPlayerIdAndRound(
                      actions, hnd.current_player_turn_id, hnd.current_round),
                 ![c].turnPlayerAmount =
                    players[hnd.current_player_turn_id].amount]
  /\ pc' = [pc EXCEPT ![c] = "update"]
  /\ UNCHANGED <<game, players, hand, actions, refunded, cmd, base>>
  /\ UNCHANGED book
  /\ UNCHANGED lobby

\* handleCallAction: getPlayerById, updateHandPot and updatePlayer;
\* handleFoldAction: getPlayerById and updatePlayer
UpdatePlayer(c) ==
  /\ pc[c] = "update"
  /\ LET hnd == loc[c].hand
         playerId == cmd[c].playerId
         player == players[playerId]
         mustBeBet == hnd.current_max_bet - loc[c].turnPlayerBetAmounts
         allIn == loc[c].turnPlayerAmount <= mustBeBet
         callAmount == IF allIn THEN loc[c].turnPlayerAmount ELSE mustBeBet
         action == IF allIn THEN AllIn ELSE Call
     IN IF cmd[c].actionType = Call
        THEN /\ hand' = [hand EXCEPT !.pot_amount = hnd.pot_amount + callAmount]
             /\ players' = [players EXCEPT
                   ![playerId].amount = player.amount - callAmount,
                   ![playerId].action = action,
                   ![playerId].action_amount =
                      callAmount + loc[c].turnPlayerBetAmounts,
                   ![playerId].all_bet_sum = player.all_bet_sum + callAmount]
             /\ loc' = [loc EXCEPT ![c].action = action,
                                   ![c].callAmount = callAmount]
        ELSE /\ hand' = hand
             /\ players' = [players EXCEPT ![playerId].action = Fold,
                                           ![playerId].action_amount = 0]
             /\ loc' = [loc EXCEPT ![c].action = Fold, ![c].callAmount = 0]
  /\ pc' = [pc EXCEPT ![c] = "orders"]
  /\ UNCHANGED <<game, actions, refunded, cmd, base>>
  /\ UNCHANGED book
  /\ UNCHANGED lobby

\* getActionOrders: the last action of the hand
ReadActionOrders(c) ==
  /\ pc[c] = "orders"
  /\ loc' = [loc EXCEPT ![c].orders = getActionOrders(actions)]
  /\ pc' = [pc EXCEPT ![c] = "create"]
  /\ UNCHANGED <<game, players, hand, actions, refunded, cmd, base>>
  /\ UNCHANGED book
  /\ UNCHANGED lobby

\* createAction with the orders read before
CreateAction(c) ==
  /\ pc[c] = "create"
  /\ actions' = createAction(Store, cmd[c].playerId,
                             loc[c].hand.current_round, loc[c].orders,
                             loc[c].action, loc[c].callAmount).a
  /\ pc' = [pc EXCEPT ![c] = "next"]
  /\ UNCHANGED <<game, players, hand, refunded, cmd, loc, base>>
  /\ UNCHANGED book
  /\ UNCHANGED lobby

NextPlayerStep(c) ==
  /\ pc[c] = "next"
  /\ \E S \in {nextPlayer(Store, cmd[c].playerId)} :
        /\ players' = S.p
        /\ hand' = S.h
        /\ actions' = S.a
        /\ refunded' = S.r
  /\ pc' = [pc EXCEPT ![c] = "done"]
  /\ UNCHANGED <<game, cmd, loc, base>>
  /\ UNCHANGED book
  /\ UNCHANGED lobby

TwoArrive ==
  \E playerA, playerB \in Seats, typeA, typeB \in ConcTypes :
     Arrive(playerA, typeA, playerB, typeB)

NextConc ==
  \/ StartGame
  \/ TwoArrive
  \/ \E c \in Cmds : ReadHand(c)
  \/ \E c \in Cmds : ReadTurnPlayer(c)
  \/ \E c \in Cmds : UpdatePlayer(c)
  \/ \E c \in Cmds : ReadActionOrders(c)
  \/ \E c \in Cmds : CreateAction(c)
  \/ \E c \in Cmds : NextPlayerStep(c)

SpecConc == Init /\ [][NextConc]_vars

\* ------------------------------------------------- the games table
\* Runs with start-game sent more than once, end-game and get-active-game,
\* and player-action commands of the player on turn in the last game
\* started.

\* SELECT * FROM games WHERE end_time IS NULL, rows[0]: the index of the
\* first row without end_time, 0 for null.  The query has no ORDER BY; the
\* rows come in the order of the table.
getLastActiveGame(gs) ==
  LET open == {k \in 1..Len(gs) : ~gs[k].ended}
  IN IF open = {} THEN 0 ELSE CHOOSE k \in open : \A j \in open : k <= j

\* the games, players, hands and actions rows of the game in row k
RowsOfGame(k) ==
  IF k = Len(games)
  THEN [g |-> game, p |-> players, h |-> hand, a |-> actions]
  ELSE games[k].rows

NoSnapshot == [gameId |-> 0]

\* What getActiveGame returns: null, or the players, the last hand (its
\* game_id shown as gameId), the level and blind time of the game and the
\* opportunity set of the player on turn.
getActiveGame ==
  LET k == getLastActiveGame(games)
      R == RowsOfGame(k)
  IN IF k = 0 THEN NoSnapshot
     ELSE [gameId |-> games[k].id,
           players |-> R.p,
           hand |-> R.h,
           level |-> R.g.level,
           blindTime |-> games[k].blind_time,
           playerActions |->
             getPlayerActionsOpportunities(
               R.g, [p |-> R.p, h |-> R.h, a |-> R.a, r |-> 0,
                     ante |-> 0, err |-> FALSE])]

\* a plausible fault: the read closes the game it returns
GetActiveGameClosing ==
  /\ game.id # 0
  /\ games' = IF getLastActiveGame(games) = 0 THEN games
              ELSE [games EXCEPT ![getLastActiveGame(games)].ended = TRUE]
  /\ last' = [cmd |-> "get", type |-> "", playerId |-> NoId,
              inTurn |-> TRUE, result |-> "ok"]
  /\ UNCHANGED <<game, players, hand, actions, refunded>>
  /\ UNCHANGED <<antesPaid, stacksIn, potPaid, nActs, nOut, nHands>>
  /\ UNCHANGED conc

\* get-active-game: reads only
GetActiveGame ==
  /\ game.id # 0
  /\ last' = [cmd |-> "get", type |-> "", playerId |-> NoId,
              inTurn |-> TRUE, result |-> "ok"]
  /\ UNCHANGED <<game, players, hand, actions, refunded>>
  /\ UNCHANGED <<antesPaid, stacksIn, potPaid, nActs, nOut, nHands>>
  /\ UNCHANGED conc
  /\ UNCHANGED lobby

\* end-game {gameId}: UPDATE games SET end_time = now WHERE id = gameId;
\* isEndedGame is false when no row has that id
EndGame(gameId) ==
  /\ game.id # 0
  /\ games' = IF gameId \in 1..Len(games)
              THEN [games EXCEPT ![gameId].ended = TRUE] ELSE games
  /\ last' = [cmd |-> "end", type |-> "", playerId |-> NoId,
              inTurn |-> TRUE,
              result |-> IF gameId \in 1..Len(games) THEN "ok" ELSE "error"]
  /\ UNCHANGED <<game, players, hand, actions, refunded>>
  /\ UNCHANGED <<antesPaid, stacksIn, potPaid, nActs, nOut, nHands>>
  /\ UNCHANGED conc

EndSomeGame == \E gameId \in 1..(MaxGames + 1) : EndGame(gameId)

\* start-game while the table has a game: startGame does not look at the
\* games table before it inserts.  The rows of the game before stay as
\* they are.
StartGameAgain(playersChips) ==
  /\ game.id # 0
  /\ Len(games) < MaxGames
  /\ \E S \in {startGame(playersChips)} :
        /\ game' = [id |-> Len(games) + 1, level |-> 1, chips |-> playersChips]
        /\ players' = S.p
        /\ hand' = S.h
        /\ actions' = S.a
        /\ refunded' = S.r
        /\ antesPaid' = S.ante
        /\ stacksIn' = NumSeats * playersChips
        /\ potPaid' = 0
        /\ last' = [cmd |-> "start", type |-> "", playerId |-> NoId,
                    inTurn |-> TRUE, result |-> Outcome(S)]
        /\ nHands' = nHands + 1
        /\ games' = Append([games EXCEPT ![Len(games)].rows = RowsOfGame(Len(games))],
                           GameRow(Len(games) + 1, BlindTime))
        /\ UNCHANGED <<nActs, nOut>>
        /\ UNCHANGED conc

StartAnotherGame == StartGameAgain(PlayersChips)

\* a plain command of the player on turn
PlayerActionOnTurn ==
  \E actionType \in PlainTypes :
     Act(hand.current_player_turn_id, actionType, 0)

NextGames ==
  \/ StartGame
  \/ StartAnotherGame
  \/ EndSomeGame
  \/ GetActiveGame
  \/ PlayerActionOnTurn

SpecGames == Init /\ [][NextGames]_vars

\* ------------------------------------------------------------ properties
\* Every step of Spec is one command; last' tells which and how it ended.

\* C1: a player-action command of a player who is not the hand's
\* current_player_turn_id ends with an error and leaves the players, the
\* hand and the action log exactly as they were.
C1_OutOfTurnRejected ==
  [][(nActs' = nActs + 1 /\ ~last'.inTurn)
       => (last'.result = "error" /\ UNCHANGED <<players, hand, actions>>)]_vars

RECURSIVE SumAmounts(_, _)
\* the stacks of the first n seats together
SumAmounts(pls, n) ==
  IF n = 0 THEN 0 ELSE pls[n - 1].amount + SumAmounts(pls, n - 1)

C3_AmountNonNegative == \A i \in Seats : players[i].amount >= 0

\* C4: while the hand is in a betting street, the player named by
\* current_player_turn_id is active, has not folded and is not all-in.
C4_TurnIsEligible ==
  (game.id # 0 /\ hand.current_round # Showdown) =>
     /\ hand.current_player_turn_id \in Seats
     /\ Eligible(players[hand.current_player_turn_id])

\* the minimum raise as the rule states it, for the hand before the command
C5_MinRaise ==
  hand.current_max_bet
  + (IF hand.current_max_bet > 0 THEN hand.last_raise_amount
     ELSE hand.big_blind_amount)

\* C5: a Raise or Re-raise whose betAmount is below the minimum raise ends
\* with an error and changes no player, hand or action-log state.
C5_MinRaiseRule ==
  [][\A playerId \in Seats, actionType \in {Raise, ReRaise},
        betAmount \in BetAmounts :
        (/\ betAmount < C5_MinRaise
         /\ last'.type = actionType
         /\ Act(playerId, actionType, betAmount))
          => (last'.result = "error"
              /\ UNCHANGED <<players, hand, actions>>)]_vars

\* a raise of a player of the game was refused
C5_SmallRaiseRefused ==
  /\ last.cmd = "action" /\ last.type \in {Raise, ReRaise}
  /\ last.result = "error"
  /\ \A i \in Seats : players[i].is_active

\* live (active, not folded) and not all-in
LiveNotAllIn(pls) ==
  {i \in Seats : pls[i].is_active /\ pls[i].action \notin {Fold, AllIn}}

\* C6: when a command changes the hand's current_round, all live players
\* who are not all-in have the same total bet in the street that ended.
C6_StreetCommitmentEqual ==
  [][(hand'.id = hand.id /\ hand'.current_round # hand.current_round) =>
       \A i, j \in LiveNotAllIn(players') :
          getActionsBetAmountsByHandIdAndPlayerIdAndRound(
            actions', i, hand.current_round)
          = getActionsBetAmountsByHandIdAndPlayerIdAndRound(
              actions', j, hand.current_round)]_vars

\* C7: the increment of an accepted Raise or Re-raise over the
\* current_max_bet before it is at least the last_raise_amount before it.
C7_MinRaiseMonotone ==
  [][\A playerId \in Seats, actionType \in {Raise, ReRaise},
        betAmount \in BetAmounts :
        (/\ last'.result = "ok"
         /\ last'.type = actionType
         /\ Act(playerId, actionType, betAmount))
          => betAmount - hand.current_max_bet >= hand.last_raise_amount]_vars

\* a raise sent by a player was accepted
C7_RaiseAccepted ==
  /\ last.cmd = "action" /\ last.type \in {Raise, ReRaise}
  /\ last.result = "ok"
  /\ hand.current_max_bet > hand.big_blind_amount

\* C8: under serial execution the action_order values of the hand's
\* actions are 1, 2, ..., N in the order of insertion, the blind actions
\* included.
C8_ActionOrderGapless ==
  \A k \in 1..Len(actions) : actions[k].action_order = k

\* the log holds the two blind actions and two actions of players
C8_LogOfFour ==
  /\ Len(actions) >= 4
  /\ last.cmd = "action" /\ last.result = "ok"

\* the rows of the store the two commands were run on, one after the other
SerialRun(b, x, y) ==
  LET S0 == [p |-> b.p, h |-> b.h, a |-> b.a, r |-> 0, ante |-> 0,
             err |-> FALSE]
      S2 == performAction(performAction(S0, x.playerId, x.actionType, 0),
                          y.playerId, y.actionType, 0)
  IN <<S2.p, S2.h, S2.a>>

\* C9: when two commands whose reads and writes interleave have both
\* ended, the players, the hand and the action log are what running the two
\* one after the other, in one of the two orders, gives.
C9_SerialExecution ==
  (\A c \in Cmds : pc[c] = "done") =>
     <<players, hand, actions>> \in {SerialRun(base, cmd[1], cmd[2]),
                                     SerialRun(base, cmd[2], cmd[1])}

\* C10: a command that ends with an error leaves the game, the players,
\* the hand and the actions as they were before it.
C10_NoPartialApplication ==
  [][(last'.result = "error")
       => UNCHANGED <<game, players, hand, actions>>]_vars

\* C11: showdown is terminal: once the hand's current_round is showdown, a
\* later player-action on that hand changes neither its pot_amount, its
\* current_round, its current_player_turn_id nor any player's amount.
C11_ShowdownTerminal ==
  [][(hand.current_round = Showdown /\ nActs' = nActs + 1)
       => /\ hand'.pot_amount = hand.pot_amount
          /\ hand'.current_round = hand.current_round
          /\ hand'.current_player_turn_id = hand.current_player_turn_id
          /\ \A i \in Seats : players'[i].amount = players[i].amount]_vars

\* the flag of the opportunity set opp that stands for an action type
Offered(opp, actionType) ==
  CASE actionType = Fold -> opp.isCanFold
    [] actionType = Call -> opp.isCanCall
    [] actionType = Check -> opp.isCanCheck
    [] actionType = Bet -> opp.isCanBet
    [] actionType = Raise -> opp.isCanRaise
    [] actionType = ReRaise -> opp.isCanReRaise
    [] actionType = AllIn -> opp.isCanAllIn
    [] OTHER -> FALSE

\* C12: a player-action of the player on turn is accepted only when the
\* opportunity set computed in the state before it offers its action type;
\* so a Check is refused while a bet or all-in is outstanding in the street
\* and a Bet is refused when the street already has a bet.
C12_OnlyOfferedAccepted ==
  [][(nActs' = nActs + 1 /\ last'.inTurn /\ last'.result = "ok")
       => Offered(getPlayerActionsOpportunities(game, Store), last'.type)]_vars

\* C13: a player-action that names a hand or a player that does not exist,
\* a game that the hand and the player do not belong to, or a player who is
\* not is_active, ends with an error and changes no state.
C13_PreconditionsChecked ==
  [][/\ \A playerId \in Seats, actionType \in ActionTypes,
           betAmount \in 0..MaxBet :
           (/\ ~players[playerId].is_active
            /\ last'.type = actionType
            /\ Act(playerId, actionType, betAmount))
             => (last'.result = "error"
                 /\ UNCHANGED <<game, players, hand, actions>>)
     /\ \A gameId \in {game.id, game.id + 1}, handId \in {hand.id, hand.id + 1},
           playerId \in Seats \cup {NumSeats}, actionType \in ActionTypes :
           (/\ last'.type = actionType
            /\ Misaddressed(gameId, handId, playerId, actionType))
             => (last'.result = "error"
                 /\ UNCHANGED <<game, players, hand, actions>>)]_vars

\* a command of a player who left the game in an earlier hand was refused
C13_InactiveRefused ==
  /\ last.cmd = "action" /\ last.result = "error"
  /\ last.type \in PlainTypes
  /\ last.playerId \in Seats
  /\ ~players[last.playerId].is_active
  /\ hand.id = 2

RECURSIVE SumAllBets(_, _)
\* the sum of all_bet_sum over the first n seats
SumAllBets(pls, n) ==
  IF n = 0 THEN 0 ELSE SumAllBets(pls, n - 1) + pls[n - 1].all_bet_sum

\* C14: during a hand the players' all_bet_sum add up to the hand's
\* pot_amount plus the chips refunded by chip capping in that hand, after
\* every command; stated for the first hand, whose refunds are all the
\* refunds so far.
C14_BetSumsEqualPotPlusRefunds ==
  (game.id # 0 /\ hand.id = 1 /\ potPaid = 0)
    => SumAllBets(players, NumSeats) = hand.pot_amount + refunded

\* C15: right after start-game with starting chips C and the blinds (sb, bb)
\* of level 1 the hand has pot_amount = sb + bb, seat 1 has C - sb, seat 2
\* has C - bb, current_max_bet = bb, last_raise_amount = bb, the round is
\* preflop and the turn is seat 3.
C15_StateAfterStartGame ==
  (last.cmd = "start") =>
     /\ hand.pot_amount = hand.small_blind_amount + hand.big_blind_amount
     /\ players[1].amount = game.chips - hand.small_blind_amount
     /\ players[2].amount = game.chips - hand.big_blind_amount
     /\ hand.current_max_bet = hand.big_blind_amount
     /\ hand.last_raise_amount = hand.big_blind_amount
     /\ hand.current_round = Preflop
     /\ hand.current_player_turn_id = 3

\* C16: in the snapshot of start-game the opportunity set of seat 3 offers
\* call, fold, raise and all-in, with raiseMinAmount twice the big blind.
C16_FirstActorOpportunities ==
  (last.cmd = "start") =>
     LET opp == getPlayerActionsOpportunities(game, Store)
     IN /\ hand.current_player_turn_id = 3
        /\ opp.isCanCall /\ opp.isCanFold /\ opp.isCanRaise /\ opp.isCanAllIn
        /\ opp.raiseMinAmount = 2 * hand.big_blind_amount

\* the log of the hand is the two blinds followed by the commands of script
LogIs(script) ==
  /\ Len(actions) = 2 + Len(script)
  /\ \A k \in 1..Len(script) :
       /\ actions[2 + k].player_id = script[k][1]
       /\ actions[2 + k].action_type = script[k][2]
       /\ actions[2 + k].bet_amount = script[k][3]

\* C17: from the start-game state seat 3 raises to three big blinds (then
\* current_max_bet is three and last_raise_amount two big blinds), seat 0
\* and seat 1 fold and seat 2 calls two big blinds; afterwards pot_amount
\* is six big blinds, seat 2 has the starting chips less three big blinds,
\* the round is the flop and the turn is the first live seat after the
\* dealer.
C17_ThreeBetFoldAround ==
  LET bb == hand.big_blind_amount
  IN (hand.id = 1 /\ nActs = Len(actions) - 2 /\ nOut = 0) =>
       /\ LogIs(<<<<3, Raise, 3 * bb>>>>)
            => (hand.current_max_bet = 3 * bb /\ hand.last_raise_amount = 2 * bb)
       /\ LogIs(<<<<3, Raise, 3 * bb>>, <<0, Fold, 0>>, <<1, Fold, 0>>,
                 <<2, Call, 2 * bb>>>>)
            => /\ hand.pot_amount = 6 * bb
               /\ players[2].amount = game.chips - 3 * bb
               /\ hand.current_round = Flop
               /\ hand.current_player_turn_id = 2

\* the players of pls who are in the game and have not folded
LiveNotFolded(pls) == {i \in Seats : pls[i].is_active /\ pls[i].action # Fold}

\* the live players of pls are two or more, all all-in, with equal totals
\* in the log a for the street round
AllLiveAllInEqual(pls, a, round) ==
  LET live == {i \in Seats : pls[i].is_active /\ pls[i].action # Fold}
  IN /\ Cardinality(live) >= 2
     /\ \A i \in live : pls[i].action = AllIn
     /\ \A i, j \in live :
          getActionsBetAmountsByHandIdAndPlayerIdAndRound(a, i, round)
          = getActionsBetAmountsByHandIdAndPlayerIdAndRound(a, j, round)

\* C18: when an accepted action leaves every live player all-in with equal
\* street commitments, the same command sets current_round to showdown,
\* pot_amount is the sum of all commitments and nothing is refunded.
C18_AllInFastForward ==
  [][(/\ nActs' = nActs + 1
      /\ last'.result = "ok"
      /\ hand.current_round # Showdown
      /\ AllLiveAllInEqual(players', actions', hand.current_round))
       => /\ hand'.current_round = Showdown
          /\ hand'.pot_amount = SumAllBets(players', NumSeats)
          /\ refunded' = refunded]_vars

\* two players went all-in for the same amount and the hand is at showdown
C18_AllInShowdown ==
  /\ last.cmd = "action" /\ last.result = "ok" /\ last.inTurn
  /\ hand.current_round = Showdown
  /\ AllLiveAllInEqual(players, actions, Preflop)
  /\ \E i \in Seats : players[i].action = AllIn /\ players[i].all_bet_sum > 0

\* the chips the accepted command of this step moved into the pot
PaidInStep == actions'[Len(actions')].bet_amount

\* C19: chip capping runs when the street ends.  With M the highest and S
\* the second highest street commitment of the live players: when exactly
\* one live player holds M and S < M, that player gets M - S back (amount
\* up and all_bet_sum down by M - S, action_amount = S while the player
\* stays all-in), pot_amount goes down by M - S and current_max_bet becomes
\* S; when two or more live players hold M nothing is refunded.
C19_UncalledBetRefund ==
  [][(/\ nActs' = nActs + 1
      /\ last'.result = "ok"
      /\ Len(actions') = Len(actions) + 1
      /\ hand'.current_round # hand.current_round
      /\ Cardinality(LiveNotFolded(players')) >= 2)
       => LET live == LiveNotFolded(players')
              bets == [i \in Seats |->
                         getActionsBetAmountsByHandIdAndPlayerIdAndRound(
                           actions', i, hand.current_round)]
              M == SetMax({bets[i] : i \in live})
              tops == {i \in live : bets[i] = M}
              top == CHOOSE i \in tops : TRUE
              S == SetMax({bets[i] : i \in live \ {top}})
              paid == [i \in Seats |->
                         IF i = last'.playerId THEN PaidInStep ELSE 0]
          IN IF Cardinality(tops) = 1
             THEN /\ refunded' = refunded + (M - S)
                  /\ players'[top].amount
                       = players[top].amount - paid[top] + (M - S)
                  /\ players'[top].all_bet_sum
                       = players[top].all_bet_sum + paid[top] - (M - S)
                  /\ players'[top].action = AllIn
                       => players'[top].action_amount = S
                  /\ hand'.pot_amount = hand.pot_amount + PaidInStep - (M - S)
                  /\ hand'.current_max_bet = S
             ELSE /\ refunded' = refunded
                  /\ hand'.pot_amount = hand.pot_amount + PaidInStep]_vars

\* the seats that are in the game in pls
ActiveSeats(pls) == {i \in Seats : pls[i].is_active}

\* C20: when next-hand follows a hand with three players in which the small
\* blind has no chips left (and neither wins the pot nor is rebought), the
\* small blind is marked inactive with inactive_time_hand_id = the id of
\* that hand, and the new hand has no small blind, has the big blind
\* posted, and gives the turn to the next active seat after the big blind.
C20_DeadSmallBlindAfterBust ==
  [][\A sb \in Seats :
       (/\ last'.cmd = "next" /\ last'.result = "ok"
        /\ hand'.id = hand.id + 1
        /\ hand.small_blind = sb
        /\ Cardinality(ActiveSeats(players)) = 3
        /\ players[sb].is_active
        /\ players[sb].inactive_time_hand_id = 0
        /\ players[sb].amount = 0
        /\ players'[sb].amount = 0
        /\ sb \notin {hand'.small_blind, hand'.big_blind})
         => /\ ~players'[sb].is_active
            /\ players'[sb].inactive_time_hand_id = hand.id
            /\ hand'.small_blind = NoId
            /\ hand'.big_blind \in ActiveSeats(players')
            /\ players'[hand'.big_blind].all_bet_sum = hand'.big_blind_amount
            /\ hand'.pot_amount = hand'.big_blind_amount
            /\ hand'.current_player_turn_id
                 = NextActiveSeat(players', hand'.big_blind)]_vars

\* the rows the blinds of the hand have put at the head of the log
BlindRows == IF hand.small_blind = NoId THEN 1 ELSE 2

\* the log of the preflop street is the blinds followed by calls and folds
\* of players other than the big blind, one call at least, all in turn
OnlyCallsSoFar ==
  /\ game.id # 0
  /\ nOut = 0
  /\ Len(actions) > BlindRows
  /\ \A k \in (BlindRows + 1)..Len(actions) :
        /\ actions[k].round = Preflop
        /\ actions[k].player_id # hand.big_blind
        /\ actions[k].action_type \in {Call, Fold}
  /\ \E k \in (BlindRows + 1)..Len(actions) : actions[k].action_type = Call

\* C21: while the other live players have only called the big blind, the
\* preflop street does not end before the big blind has had the turn; and
\* once all of them have called, the turn is the big blind's and its
\* opportunity set offers check and raise together.
C21_BigBlindOption ==
  OnlyCallsSoFar =>
    /\ hand.current_round = Preflop
    /\ (\A i \in LiveNotFolded(players) \ {hand.big_blind} :
          getActionsBetAmountsByHandIdAndPlayerIdAndRound(actions, i, Preflop)
            = hand.big_blind_amount)
         => LET opp == getPlayerActionsOpportunities(game, Store)
            IN /\ hand.current_player_turn_id = hand.big_blind
               /\ opp.isCanCheck /\ opp.isCanRaise

\* the rows of the games table without end_time
OpenGames(gs) == {k \in 1..Len(gs) : ~gs[k].ended}

\* C22: at most one game is without end_time, whatever start-game and
\* end-game commands came before; and after an end-game of the game that
\* get-active-game returned, get-active-game returns null.
C22_OneActiveGame ==
  [][/\ Cardinality(OpenGames(games')) <= 1
     /\ \A gameId \in 1..MaxGames :
          (/\ getActiveGame.gameId = gameId
           /\ last'.cmd = "end" /\ last'.result = "ok"
           /\ gameId \in OpenGames(games) \ OpenGames(games'))
            => getActiveGame' = NoSnapshot]_vars

FirstLiveAfter(pls, from) ==
  LET os == {o \in 1..NumSeats : Eligible(pls[(from + o) % NumSeats])}
  IN IF os = {} THEN NoId
     ELSE (from + (CHOOSE o \in os : \A j \in os : o <= j)) % NumSeats

\* C24: when an accepted command of the player on turn moves the hand to a
\* new betting street (flop, turn or river) and some seat other than the
\* dealer can still act, current_player_turn_id is the first seat after the
\* dealer, in seat order, that is live and not all-in.
C24_FirstActorOfStreet ==
  [][(/\ nActs' = nActs + 1
      /\ nOut' = 0
      /\ last'.result = "ok"
      /\ hand'.current_round # hand.current_round
      /\ hand'.current_round \in {Flop, Turn, River}
      /\ FirstLiveAfter(players', hand.dealer) \notin {NoId, hand.dealer})
       => hand'.current_player_turn_id
            = FirstLiveAfter(players', hand.dealer)]_vars

BettingStreets == {Preflop, Flop, Turn, River}

\* C25: when an accepted command of the player on turn leaves the hand in
\* its betting street and some seat can still act, current_player_turn_id
\* becomes the first seat after the acting player's seat, wrapping around,
\* that is active, not folded and not all-in.
C25_MidStreetTurnOrder ==
  [][(/\ nActs' = nActs + 1
      /\ nOut' = 0
      /\ last'.result = "ok"
      /\ Len(actions') = Len(actions) + 1
      /\ hand.current_round \in BettingStreets
      /\ hand'.current_round = hand.current_round
      /\ FirstLiveAfter(players', last'.playerId) # NoId)
       => hand'.current_player_turn_id
            = FirstLiveAfter(players', last'.playerId)]_vars

\* the number of seats to go from seat `from` to the first seat after it
\* that is_active (NumSeats brings back to `from`); 0 if no seat is_active
StepsToActive(pls, from) ==
  LET os == {o \in 1..NumSeats : pls[(from + o) % NumSeats].is_active}
  IN IF os = {} THEN 0 ELSE CHOOSE o \in os : \A j \in os : o <= j

\* the first is_active seat after seat `from`
FirstActiveAfter(pls, from) == (from + StepsToActive(pls, from)) % NumSeats

\* a seat that went out in hand lastHandId sits between seat `from` and
\* the first is_active seat after it
BustedSeatFirst(pls, from, lastHandId) ==
  \E o \in 1..(StepsToActive(pls, from) - 1) :
     pls[(from + o) % NumSeats].inactive_time_hand_id = lastHandId

\* C26: a next-hand that leaves fewer than two players active fails and
\* creates no hand.  Otherwise the new hand has: as dealer the first active
\* seat after the dealer before; as small_blind the first active seat
\* after the new dealer, or none when a seat that went out in the hand
\* before is met first; as big_blind the next active seat after the small
\* blind, or, without a small blind, after the seat that follows the
\* dealer; a big blind who is not the small blind; and the turn on the
\* next active seat after the big blind, in the hand as it is created and,
\* unless the posting of the blinds has ended the hand, after the blinds
\* are posted.
C26_SeatRotation ==
  [][(last'.cmd = "next")
       => IF Cardinality(ActiveSeats(players')) < 2
          THEN last'.result = "error" /\ hand'.id = hand.id
          ELSE LET dealer == FirstActiveAfter(players', hand.dealer)
                   sb == IF BustedSeatFirst(players', dealer, hand.id)
                         THEN NoId ELSE FirstActiveAfter(players', dealer)
                   bb == IF sb = NoId
                         THEN FirstActiveAfter(players', (dealer + 1) % NumSeats)
                         ELSE FirstActiveAfter(players', sb)
               IN /\ last'.result = "ok"
                  /\ hand'.id = hand.id + 1
                  /\ hand'.dealer = dealer
                  /\ hand'.small_blind = sb
                  /\ hand'.big_blind = bb
                  /\ hand'.big_blind # hand'.small_blind
                  /\ createNewHand([Store EXCEPT !.p = players'],
                                    game').h.current_player_turn_id
                       = FirstActiveAfter(players', bb)
                  /\ hand'.current_round = Preflop
                       => hand'.current_player_turn_id
                            = FirstActiveAfter(players', bb)]_vars

\* a next-hand has made a hand without a small blind
C26_HandWithoutSmallBlind ==
  /\ last.cmd = "next" /\ last.result = "ok"
  /\ hand.small_blind = NoId
  /\ hand.big_blind \in ActiveSeats(players)

\* C27: when a fold of the player on turn leaves one live player whose
\* commitment in the street is above the highest commitment of any other
\* player, the difference is returned to that player's amount and taken
\* out of pot_amount, and the hand is at showdown.
C27_UncalledBetReturned ==
  [][(/\ nActs' = nActs + 1
      /\ nOut' = 0
      /\ last'.result = "ok"
      /\ last'.type = Fold
      /\ hand.current_round \in BettingStreets
      /\ Cardinality(LiveNotFolded(players)) = 2
      /\ Cardinality(LiveNotFolded(players')) = 1)
       => LET bettor == CHOOSE i \in LiveNotFolded(players') : TRUE
              bets == [i \in Seats |->
                         getActionsBetAmountsByHandIdAndPlayerIdAndRound(
                           actions, i, hand.current_round)]
              uncalled == bets[bettor]
                            - SetMax({bets[i] : i \in Seats \ {bettor}})
          IN /\ hand'.current_round = Showdown
             /\ uncalled > 0
                  => /\ players'[bettor].amount
                          = players[bettor].amount + uncalled
                     /\ hand'.pot_amount = hand.pot_amount - uncalled
                     /\ refunded' = refunded + uncalled]_vars

\* the store right after the chip capping of the step, put back on the
\* street that was capped: the players, the pot and the log of the next
\* state, when the reset of the street has changed no player
CappedStore ==
  [p |-> players', h |-> [hand' EXCEPT !.current_round = hand.current_round],
   a |-> actions', r |-> refunded', ante |-> 0, err |-> FALSE]

\* second largest of the values f[i], i in the set S of two or more seats
SecondLargest(f, S) ==
  LET t == CHOOSE i \in S : \A j \in S : f[j] <= f[i]
  IN SetMax({f[j] : j \in S \ {t}})

\* C28: after chip capping has refunded, the largest street commitment of
\* the live players is the second largest one before capping, and chip
\* capping run again on that state, on the same street and without a new
\* action, refunds nothing and changes nothing.
C28_PostCapping ==
  [][(/\ nActs' = nActs + 1 /\ nOut' = 0 /\ last'.result = "ok"
      /\ refunded' > refunded
      /\ hand.current_round \in BettingStreets
      /\ \A i \in LiveNotFolded(players') : players'[i].action # Active)
       => LET live == LiveNotFolded(players')
              before == [i \in Seats |->
                           getActionsBetAmountsByHandIdAndPlayerIdAndRound(
                             actions', i, hand.current_round)]
          IN /\ SetMax({players'[i].action_amount : i \in live})
                  = SecondLargest(before, live)
             /\ SetMax({effectiveAllIn(CappedStore, i) : i \in live})
                  = SecondLargest(before, live)
             /\ handleChipCapping(CappedStore) = CappedStore]_vars

\* the commands of the hand so far were calls and folds of the player on
\* turn
CallsAndFoldsInTurn ==
  /\ game.id # 0
  /\ nOut = 0
  /\ \A k \in (BlindRows + 1)..Len(actions) :
        actions[k].action_type \in {Call, Fold}

\* C29: on a betting street hand.current_max_bet is the largest total a
\* live player has committed in the street, 0 before anyone bets (stated
\* for the hands in which the players on turn have only called or folded).
C29_MaxBetIsLargestCommitment ==
  (CallsAndFoldsInTurn /\ hand.current_round \in BettingStreets
     /\ LiveNotFolded(players) # {})
    => hand.current_max_bet
         = SetMax({getActionsBetAmountsByHandIdAndPlayerIdAndRound(
                     actions, i, hand.current_round) :
                   i \in LiveNotFolded(players)})

\* the step is an accepted call of the player on turn in a betting street
CallInTurn ==
  /\ nActs' = nActs + 1
  /\ last'.cmd = "action" /\ last'.type = Call /\ last'.result = "ok"
  /\ last'.inTurn /\ last'.playerId = hand.current_player_turn_id
  /\ hand.current_round \in BettingStreets

\* what the caller on turn owes and pays: min(m - c, s)
CallOwed ==
  hand.current_max_bet
  - getActionsBetAmountsByHandIdAndPlayerIdAndRound(
      actions, hand.current_player_turn_id, hand.current_round)

CallPaid == Min(CallOwed, players[hand.current_player_turn_id].amount)

FoldOrCheck ==
  /\ nActs' = nActs + 1
  /\ last'.cmd = "action" /\ last'.type \in {Fold, Check}
  /\ last'.result = "ok"

StoreNext == [p |-> players', h |-> hand', a |-> actions', r |-> refunded',
              ante |-> 0, err |-> FALSE]

\* player i has a row of its own in the street of the hand, the blinds of
\* the hand left out
HasActedInStreet(i) ==
  \E k \in (BlindRows + 1)..Len(actions) :
     actions[k].player_id = i /\ actions[k].round = hand.current_round

\* the rows of the street of the hand, the blinds left out, are a bet, a
\* check or an all-in first, and no check or bet after a bet or an all-in
StreetPlayedAsOffered ==
  LET ks == {k \in (BlindRows + 1)..Len(actions) :
               actions[k].round = hand.current_round}
      opens == {k \in ks : actions[k].action_type \in {Bet, AllIn}}
  IN /\ hand.current_round # Preflop
          => \A k \in ks :
               \/ actions[k].action_type \in {Bet, AllIn, Check, Fold}
               \/ \E j \in opens : j < k
     /\ \A k \in ks :
          actions[k].action_type \in {Check, Bet}
            => ~\E j \in opens : j < k

\* what the player of the command has in the street after the step
AllInTotal ==
  getActionsBetAmountsByHandIdAndPlayerIdAndRound(
    actions', last'.playerId, hand.current_round)

\* the step is an accepted all-in of the player on turn that lifts
\* largest bet of the street by less than a full raise and gives the turn,
\* in the same street, to a player who has acted in it
ShortAllInToActedPlayer ==
  /\ nActs' = nActs + 1 /\ nOut' = 0
  /\ last'.cmd = "action" /\ last'.type = AllIn /\ last'.result = "ok"
  /\ last'.inTurn
  /\ hand.current_round \in BettingStreets
  /\ hand'.current_round = hand.current_round
  /\ AllInTotal > hand.current_max_bet
  /\ AllInTotal < minRaiseAmount(hand)
  /\ hand'.current_player_turn_id # last'.playerId
  /\ HasActedInStreet(hand'.current_player_turn_id)
  /\ StreetPlayedAsOffered
  /\ \A i \in Seats : players'[i].amount >= 0

\* C32: after an all-in that lifts current_max_bet by less than a full
\* raise, a player who has acted in the street and gets the turn again is
\* offered neither a raise nor a re-raise.
C32_ShortAllInDoesNotReopen ==
  [][ShortAllInToActedPlayer
       => LET opp == getPlayerActionsOpportunities(game', StoreNext)
          IN ~opp.isCanRaise /\ ~opp.isCanReRaise]_vars

\* C33: the snapshot returned by an accepted next-hand reports the level
\* passed in the command, which the command has written to the game.
C33_NextHandReportsNewLevel ==
  [][(last'.cmd = "next" /\ last'.result = "ok" /\ nHands' = nHands + 1)
       => handleNextHandResult(game, game', StoreNext).level = game'.level]_vars

\* the last row of player i in the log a for the street round, 0 for none
LastRowOf(a, i, round) ==
  LET ks == {k \in 1..Len(a) : a[k].player_id = i /\ a[k].round = round}
  IN IF ks = {} THEN 0 ELSE SetMax(ks)

\* in the store after the step a live player who is not all-in has less in
\* the street that ended than a live all-in player, and no row of its own
\* after that player's all-in
OwesAnswerToAllIn(i) ==
  /\ players'[i].is_active /\ players'[i].action \notin {Fold, AllIn}
  /\ players'[i].amount > 0
  /\ \E j \in Seats \ {i} :
       /\ players'[j].is_active /\ players'[j].action = AllIn
       /\ getActionsBetAmountsByHandIdAndPlayerIdAndRound(
            actions', i, hand.current_round)
          < getActionsBetAmountsByHandIdAndPlayerIdAndRound(
              actions', j, hand.current_round)
       /\ LastRowOf(actions', i, hand.current_round)
            < LastRowOf(actions', j, hand.current_round)

\* C34: a command of the player on turn never takes the hand to showdown
\* while a live player who is not all-in has committed less in the street
\* than an opponent's all-in and has not had the turn since.
C34_AllInIsAnswered ==
  [][(/\ nActs' = nActs + 1 /\ nOut' = 0
      /\ last'.cmd = "action" /\ last'.result = "ok"
      /\ hand.current_round \in BettingStreets
      /\ hand'.current_round = Showdown
      /\ \A i \in Seats : players[i].amount >= 0)
       => \A i \in Seats : ~OwesAnswerToAllIn(i)]_vars

\* C35: a player-action command, the refund of the chip capping it triggers
\* included, leaves the sum of the players' amounts plus pot_amount
\* unchanged.
C35_ActionConservesChips ==
  [][(nActs' = nActs + 1 /\ last'.cmd = "action")
       => SumAmounts(players', NumSeats) + hand'.pot_amount
            = SumAmounts(players, NumSeats) + hand.pot_amount]_vars

\* an all-in of the player on turn has ended the first hand with a refund
C35_AllInWithRefund ==
  /\ last.cmd = "action" /\ last.type = AllIn /\ last.result = "ok"
  /\ last.inTurn /\ nOut = 0 /\ nHands = 1
  /\ players[last.playerId].action = AllIn
  /\ players[last.playerId].amount > 0
  /\ hand.current_round = Showdown
  /\ refunded > 0

\* the place of a street in the order of play
RoundIndex(r) ==
  CASE r = Preflop -> 0
    [] r = Flop -> 1
    [] r = Turn -> 2
    [] r = River -> 3
    [] OTHER -> 4

\* the live players of pls who can still bet: not all-in and with chips
CanStillBet(pls) ==
  {i \in LiveNotFolded(pls) : pls[i].action # AllIn /\ pls[i].amount > 0}

\* The players who can still bet when the command of the step chooses the
\* next street, after the writes of its handler and before chip capping and
\* the reset of the street: the other players as they were, and the player
\* of the command as the step leaves it, a refund it received taken off.
CanStillBetAtStreetEnd ==
  LET a == last'.playerId
      refund == refunded' - refunded
      paidToOther == \E i \in Seats \ {a} :
                        players'[i].amount # players[i].amount
      stack == players'[a].amount
                 - (IF paidToOther THEN 0 ELSE refund)
  IN (CanStillBet(players) \ {a})
       \cup (IF /\ players'[a].is_active
                /\ players'[a].action \notin {Fold, AllIn}
                /\ stack > 0
             THEN {a} ELSE {})

OfferedAction ==
  \E actionType \in PlainTypes \cup SizedTypes, betAmount \in 0..MaxBet :
     /\ game.id # 0
     /\ hand.current_round # Showdown
     /\ (actionType \in SizedTypes) = (betAmount # 0)
     /\ Offered(getPlayerActionsOpportunities(game, Store), actionType)
     /\ Act(hand.current_player_turn_id, actionType, betAmount)

NextOffered == StartGame \/ OfferedAction

SpecOffered == Init /\ [][NextOffered]_vars

\* C37: while every command is an offered action of the player on turn, no
\* state before showdown is left without a live player on turn who is not
\* all-in and can act (the hand then goes on to showdown).
C37_TurnCanActUntilShowdown ==
  (game.id # 0 /\ hand.current_round \in BettingStreets)
    => LET turnPlayer == players[hand.current_player_turn_id]
       IN /\ turnPlayer.is_active
          /\ turnPlayer.action \notin {Fold, AllIn}

\* C38: a rebuy sent while the hand is before showdown leaves the hand alone:
\* a seat that was folded or eliminated is still not a live player of the hand
\* afterwards, the player on turn and the street are the same, and the pot
\* and the other players' rows are unchanged.
ReBuyInHand == last'.cmd = "rebuy" /\ hand.current_round \in BettingStreets

C38_ReBuyKeepsHand ==
  [][ReBuyInHand
       => /\ LiveNotFolded(players') \subseteq LiveNotFolded(players)
          /\ hand' = hand
          /\ \A i \in Seats :
               players'[i].amount = players[i].amount => players'[i] = players[i]]_vars

\* C39: after a next-hand command that created a hand, every player who is
\* is_active in the new hand was dealt in with chips: the stack left after
\* the ante, which is what the player holds plus what the blinds took, is
\* positive; a player with nothing is not is_active, so is not the dealer, a
\* blind or the player on turn.
DealtStack(pl) == pl.amount + pl.all_bet_sum

C39_NoZeroStackInNewHand ==
  [][(last'.cmd = "next" /\ last'.result = "ok")
       => \A i \in Seats : players'[i].is_active => DealtStack(players'[i]) > 0]_vars

\* C40: wherever a raise or a re-raise is offered, the raiseMinAmount the
\* calculator reports is the smallest betAmount the raise handlers accept.
C40_MinRaiseAgrees ==
  (game.id # 0 /\ hand.current_round \in BettingStreets)
    => LET opp == getPlayerActionsOpportunities(game, Store)
       IN (Offered(opp, Raise) \/ Offered(opp, ReRaise))
            => opp.raiseMinAmount = minRaiseAmount(hand)

====
